---- MODULE Spec2Model ----
(***************************************************************************)
(* Model of the Braze landing-page generation pipeline:                    *)
(*   core/workflow.py        the graph, the router and stream_workflow     *)
(*   agents/*.py             the stages' process methods                   *)
(*   agents/orchestrator.py  generate / generate_streaming                 *)
(*   ui/streamlit_app.py     the stop handler                              *)
(* The graph is executed as _build_graph wires it: one node at a time, the *)
(* node's returned update merged into the state, then the outgoing edge    *)
(* followed.  The model has no step ceiling: the source configures none    *)
(* for this graph.  Stage bodies are modelled as written and are taken to  *)
(* receive the state the engine passes.                                    *)
(***************************************************************************)
EXTENDS Integers, Sequences, FiniteSets, TLC

VARIABLES
    braze_api_config,        \* Orchestrator.braze_api_config: "None" or "config"
    enable_browser_testing,  \* Orchestrator.enable_browser_testing
    mode,                    \* "idle", "streaming", "blocking", "unit"
    state,                   \* the CodeGenerationState of the run
    pc,                      \* node the graph executes next, "END", "raised" or "idle"
    phase,                   \* "ready" (between nodes) or "running" (inside process)
    call,                    \* the last process/router call: op, pre-state, update, llm
                             \* use, and for a direct call its collaborators' outcomes
    final_state,             \* stream_workflow's final_state (the last chunk's update)
    events,                  \* the last events yielded by the stream (sliding window)
    yielded,                 \* the event types yielded so far
    stream,                  \* "none", "open", "closed"
    result,                  \* blocking generate: "none", "returned", "raised"
    stop_event,              \* st.session_state.stop_event
    stoppedIn,               \* node that was executing when stop_event was set
    afterStop,               \* nodes that began executing after stop_event was set
    validations,             \* number of Validation executions of the run (saturating)
    refineFailed,            \* a Refinement of this run failed with an exception
    text,                    \* a call of a text function: its argument and results
    connection_lock,         \* _connection_lock: 0 when free, else the call holding it
    thread,                  \* per thread: its position in _run_with_retry, its attempt
    sessions,                \* calls whose MCP session is open
    reply                    \* the text process_message returned: "none" before

vars == <<braze_api_config, enable_browser_testing, mode, state, pc, phase, call,
          final_state, events, yielded, stream, result, stop_event, stoppedIn,
          afterStop, validations, refineFailed, text, connection_lock, thread,
          sessions, reply>>

mcpVars == <<connection_lock, thread, sessions>>

----------------------------------------------------------------------------
(* Bounds *)

MaxM == 2            \* largest max_refinement_iterations a caller passes
MaxIter == 3         \* largest refinement_iteration of a directly built state
MaxEvents == 4       \* length of the window kept of the event stream

MaxWords == 2        \* longest answer of the judge, in words
MaxLen == 5          \* longest LLM response given to the HTML cleaner, in tokens
MaxHost == 6         \* longest host name given to the default plan, in characters

MaxThreads == 2      \* threads calling the run_mcp_* wrappers concurrently
MaxMsg == 3          \* longest user message given to the URL extraction, in words

MaxCount == MaxM + 3 \* the counter of Validation executions saturates here

----------------------------------------------------------------------------
(* The state container *)

NoCode == [html |-> 0, polished |-> FALSE]
NoReport == [present |-> FALSE, passed |-> FALSE, issues |-> <<>>, code |-> NoCode]
NoChunk == [none |-> TRUE]
NoCall == [op |-> "none"]
NoText == [kind |-> "none"]
NoPlan == [source |-> "None", features |-> <<>>, page_title |-> <<>>]

\* core/state.py is not part of the sources: the initial state follows the
\* data model of the specification and the defaults the stages read with .get
create_initial_state(url, config, M) ==
    [ messages |-> <<"user">>,
      customer_website_url |-> url,
      braze_api_config |-> config,
      branding_data |-> "None",
      feature_plan |-> NoPlan,
      research_results |-> "None",
      generated_code |-> NoCode,
      validation_report |-> NoReport,
      validation_passed |-> FALSE,
      refinement_iteration |-> 0,
      max_refinement_iterations |-> M,
      error |-> "None",
      next_step |-> "planning",
      is_complete |-> FALSE,
      export_file_path |-> "None" ]

\* mark_complete (core/state.py, not part of the sources): the terminal markers
mark_complete(path) ==
    [ is_complete |-> TRUE, export_file_path |-> path ]

\* merge of a node's update into the state: keys of the update overwrite,
\* absent keys are preserved, messages are appended
Merge(s, u) ==
    [ k \in DOMAIN s |->
        IF k \in DOMAIN u
        THEN IF k = "messages" THEN s[k] \o u[k] ELSE u[k]
        ELSE s[k] ]

Has(u, k) == k \in DOMAIN u

\* dict.get: the value of a key of an update, None if the update has no such key
get(u, k) == IF k \in DOMAIN u THEN u[k] ELSE "None"

----------------------------------------------------------------------------
(* The stages.  Each operator gives what process does on state s for one   *)
(* outcome of its collaborators: the update it returns, whether it invoked *)
(* the LLM, and whether an exception escaped it.                           *)

Ret(u, llm) == [out |-> u, llm |-> llm, raised |-> FALSE]
Raise(llm) == [out |-> NoChunk, llm |-> llm, raised |-> TRUE]

PlanningOutcomes == { [url |-> u, analyzer |-> a, llm |-> l] :
                        u \in {"None", "url"}, a \in {"ok", "raise"},
                        l \in {"ok", "error", "raise"} }

\* a feature plan as the planning LLM returns it
LlmPlan == [source |-> "llm", features |-> <<"feature">>, page_title |-> <<"title">>]

\* str.upper and str.lower on one character of a host name
upper_char(c) == CASE c = "w" -> "W" [] c = "a" -> "A" [] OTHER -> c
lower_char(c) == CASE c = "W" -> "w" [] c = "A" -> "a" [] OTHER -> c

\* str.capitalize: the first character upper-cased, the others lower-cased
capitalize(t) ==
    [i \in 1..Len(t) |-> IF i = 1 THEN upper_char(t[i]) ELSE lower_char(t[i])]

\* t.startswith(prefix)
startswith(t, prefix) ==
    Len(t) >= Len(prefix) /\ SubSeq(t, 1, Len(prefix)) = prefix

\* the text t without its first n elements
Drop(t, n) == SubSeq(t, n + 1, Len(t))

RECURSIVE replace_www(_)
\* netloc.replace('www.', ''): every occurrence is removed, left to right
replace_www(t) ==
    IF t = <<>> THEN <<>>
    ELSE IF startswith(t, <<"w", "w", "w", ".">>) THEN replace_www(Drop(t, 4))
    ELSE <<t[1]>> \o replace_www(Tail(t))

\* t.split('.')[0]: the part before the first dot
split_dot_first(t) ==
    IF \E i \in 1..Len(t) : t[i] = "."
    THEN SubSeq(t, 1, (CHOOSE i \in 1..Len(t) :
                          t[i] = "." /\ \A j \in 1..(i - 1) : t[j] # ".") - 1)
    ELSE t

\* urlparse(url).netloc of the website URL of a run
urlparse_netloc(url) ==
    IF url = "url" THEN <<"w", "w", "w", ".", "a", ".", "a">> ELSE <<>>

\* LeadAgent._create_default_plan for a URL that is present or not, with the
\* host part netloc
create_default_plan(present, netloc) ==
    LET domain == IF present
                  THEN capitalize(split_dot_first(replace_www(netloc)))
                  ELSE <<"Customer">>
    IN  [ source |-> "default",
          features |-> <<"User Tracking", "User Attributes">>,
          page_title |-> <<"Braze SDK Demo - ">> \o domain ]

\* LeadAgent.process with a failure of the planning LLM returned as an error
LeadAgent_process_llm_failure_fatal(s, o) ==
    LET url == IF s.customer_website_url # "None" THEN s.customer_website_url
               ELSE o.url
        branding == IF url # "None" /\ o.analyzer = "ok" THEN "branding" ELSE "None"
    IN  IF o.llm = "raise" THEN Raise(FALSE)
        ELSE IF o.llm = "error"
        THEN Ret([ error |-> "Planning failed", next_step |-> "error_handler" ], TRUE)
        ELSE Ret([ customer_website_url |-> url,
                   branding_data |-> branding,
                   feature_plan |-> LlmPlan,
                   next_step |-> "research" ], TRUE)

\* LeadAgent.process
LeadAgent_process(s, o) ==
    LET url == IF s.customer_website_url # "None" THEN s.customer_website_url
               ELSE o.url
        branding == IF url # "None" /\ o.analyzer = "ok" THEN "branding" ELSE "None"
    IN  IF o.llm = "raise" THEN Raise(FALSE)
        ELSE Ret([ customer_website_url |-> url,
                   branding_data |-> branding,
                   feature_plan |-> IF o.llm = "ok" THEN LlmPlan
                                    ELSE create_default_plan(url # "None",
                                                             urlparse_netloc(url)),
                   next_step |-> "research" ], TRUE)

ResearchOutcomes == {"ok", "error"}

\* ResearchAgent.process
ResearchAgent_process(s, o) ==
    IF s.feature_plan = NoPlan
    THEN Ret([ error |-> "No feature plan available for research",
               next_step |-> "error_handler" ], FALSE)
    ELSE IF o = "ok"
    THEN Ret([ research_results |-> "results", next_step |-> "code_generation" ], TRUE)
    ELSE Ret([ error |-> "Research failed", next_step |-> "code_generation" ], TRUE)

CodeGenerationOutcomes == {"ok", "error", "raise"}

\* CodeGenerationAgent.process with the feature plan left out of the
\* precondition
CodeGenerationAgent_process_plan_unchecked(s, o) ==
    IF s.branding_data = "None" \/ s.braze_api_config = "None"
    THEN Ret([ error |-> "Missing feature plan, branding, or API config",
               next_step |-> "error_handler" ], FALSE)
    ELSE IF o = "raise" THEN Raise(FALSE)
    ELSE IF o = "ok"
    THEN Ret([ generated_code |-> [html |-> 1, polished |-> FALSE],
               next_step |-> "validation" ], TRUE)
    ELSE Ret([ error |-> "Code generation failed", next_step |-> "error_handler" ], TRUE)

\* CodeGenerationAgent.process with a success update that clears the error
CodeGenerationAgent_process_clears_error(s, o) ==
    IF s.feature_plan = NoPlan \/ s.branding_data = "None" \/ s.braze_api_config = "None"
    THEN Ret([ error |-> "Missing feature plan, branding, or API config",
               next_step |-> "error_handler" ], FALSE)
    ELSE IF o = "raise" THEN Raise(FALSE)
    ELSE IF o = "ok"
    THEN Ret([ generated_code |-> [html |-> 1, polished |-> FALSE],
               error |-> "None", next_step |-> "validation" ], TRUE)
    ELSE Ret([ error |-> "Code generation failed", next_step |-> "error_handler" ], TRUE)

\* CodeGenerationAgent.process
CodeGenerationAgent_process(s, o) ==
    IF s.feature_plan = NoPlan \/ s.branding_data = "None" \/ s.braze_api_config = "None"
    THEN Ret([ error |-> "Missing feature plan, branding, or API config",
               next_step |-> "error_handler" ], FALSE)
    ELSE IF o = "raise" THEN Raise(FALSE)
    ELSE IF o = "ok"
    THEN Ret([ generated_code |-> [html |-> 1, polished |-> FALSE],
               next_step |-> "validation" ], TRUE)
    ELSE Ret([ error |-> "Code generation failed", next_step |-> "error_handler" ], TRUE)

\* the judge's answer is a text of at most MaxWords words, or its call raises
JudgeWords == {"PASS", "FAIL", "passed"}
JudgeResponses == UNION { [1..n -> JudgeWords] : n \in 0..MaxWords }
JudgeOutcomes == { [raises |-> FALSE, content |-> c] : c \in JudgeResponses }
                   \cup { [raises |-> TRUE, content |-> <<>>] }

ValidationOutcomes == { [browser |-> b, judge |-> j] :
                          b \in {"passed", "failed", "raised"},
                          j \in JudgeOutcomes }

\* str.upper on a word of the answer
upper(w) ==
    CASE w = "passed" -> "PASSED"
      [] OTHER -> w

\* the decision words that occur in the upper-cased word W as substrings
Substrings(W) ==
    CASE W = "PASS" -> {"PASS"}
      [] W = "PASSED" -> {"PASS"}
      [] W = "FAIL" -> {"FAIL"}
      [] OTHER -> {}

\* token in decision_text, for decision_text = response.content.upper()
Contains(content, token) ==
    \E i \in 1..Len(content) : token \in Substrings(upper(content[i]))

\* _analyze_validation_report deciding on PASS alone
analyze_validation_report_pass_only(judge) ==
    IF judge.raises THEN FALSE
    ELSE Contains(judge.content, "PASS")

\* ValidationAgent._analyze_validation_report: the judge's decision
analyze_validation_report(judge) ==
    IF judge.raises THEN FALSE
    ELSE Contains(judge.content, "PASS") /\ ~Contains(judge.content, "FAIL")

\* ValidationAgent.process with an exception of the browser tester returned as
\* an error update
ValidationAgent_process_browser_error_fatal(s, o, browser) ==
    IF s.generated_code = NoCode
    THEN Ret([ error |-> "No generated code available",
               next_step |-> "error_handler" ], FALSE)
    ELSE IF browser /\ o.browser = "raised"
    THEN Ret([ error |-> "Browser testing failed", next_step |-> "error_handler" ], FALSE)
    ELSE
      LET report == IF browser
                    THEN IF o.browser = "passed"
                         THEN [present |-> TRUE, passed |-> TRUE, issues |-> <<>>,
                               code |-> s.generated_code]
                         ELSE [present |-> TRUE, passed |-> FALSE, issues |-> <<"error">>,
                               code |-> s.generated_code]
                    ELSE [present |-> TRUE, passed |-> TRUE, issues |-> <<>>,
                          code |-> s.generated_code]
          passed == analyze_validation_report(o.judge)
          next == IF passed THEN "finalize"
                  ELSE IF s.refinement_iteration < s.max_refinement_iterations
                       THEN "refine" ELSE "finalize"
      IN  Ret([ validation_report |-> report,
                validation_passed |-> passed,
                next_step |-> next ], TRUE)

\* ValidationAgent.process; browser is the Orchestrator's enable_browser_testing
ValidationAgent_process(s, o, browser) ==
    IF s.generated_code = NoCode
    THEN Ret([ error |-> "No generated code available",
               next_step |-> "error_handler" ], FALSE)
    ELSE
      LET report == IF browser
                    THEN IF o.browser = "passed"
                         THEN [present |-> TRUE, passed |-> TRUE, issues |-> <<>>,
                               code |-> s.generated_code]
                         ELSE [present |-> TRUE, passed |-> FALSE, issues |-> <<"error">>,
                               code |-> s.generated_code]
                    ELSE [present |-> TRUE, passed |-> TRUE, issues |-> <<>>,
                          code |-> s.generated_code]
          passed == analyze_validation_report(o.judge)
          next == IF passed THEN "finalize"
                  ELSE IF s.refinement_iteration < s.max_refinement_iterations
                       THEN "refine" ELSE "finalize"
      IN  Ret([ validation_report |-> report,
                validation_passed |-> passed,
                next_step |-> next ], TRUE)

RefinementOutcomes == {"ok", "error"}

\* RefinementAgent.process marking the run complete when it gives up
RefinementAgent_process_gives_up_complete(s, o) ==
    LET current_iteration == s.refinement_iteration
    IN  IF s.generated_code = NoCode \/ ~s.validation_report.present
        THEN Ret([ error |-> "Cannot refine without code and validation report",
                   next_step |-> "error_handler" ], FALSE)
        ELSE IF o = "ok"
        THEN Ret([ generated_code |-> [html |-> s.generated_code.html + 1,
                                       polished |-> FALSE],
                   refinement_iteration |-> current_iteration + 1,
                   next_step |-> "validation" ], TRUE)
        ELSE Ret([ error |-> "Refinement failed", is_complete |-> TRUE,
                   next_step |-> "finalize" ], TRUE)

\* RefinementAgent.process with the validation report left out of the
\* precondition
RefinementAgent_process_report_unchecked(s, o) ==
    LET current_iteration == s.refinement_iteration
    IN  IF s.generated_code = NoCode
        THEN Ret([ error |-> "Cannot refine without code and validation report",
                   next_step |-> "error_handler" ], FALSE)
        ELSE IF o = "ok"
        THEN Ret([ generated_code |-> [html |-> s.generated_code.html + 1,
                                       polished |-> FALSE],
                   refinement_iteration |-> current_iteration + 1,
                   next_step |-> "validation" ], TRUE)
        ELSE IF current_iteration >= s.max_refinement_iterations - 1
        THEN Ret([ error |-> "Refinement failed", next_step |-> "finalize" ], TRUE)
        ELSE Ret([ error |-> "Refinement failed",
                   refinement_iteration |-> current_iteration + 1,
                   next_step |-> "finalize" ], TRUE)

\* RefinementAgent.process
RefinementAgent_process(s, o) ==
    LET current_iteration == s.refinement_iteration
    IN  IF s.generated_code = NoCode \/ ~s.validation_report.present
        THEN Ret([ error |-> "Cannot refine without code and validation report",
                   next_step |-> "error_handler" ], FALSE)
        ELSE IF o = "ok"
        THEN Ret([ generated_code |-> [html |-> s.generated_code.html + 1,
                                       polished |-> FALSE],
                   refinement_iteration |-> current_iteration + 1,
                   next_step |-> "validation" ], TRUE)
        ELSE IF current_iteration >= s.max_refinement_iterations - 1
        THEN Ret([ error |-> "Refinement failed", next_step |-> "finalize" ], TRUE)
        ELSE Ret([ error |-> "Refinement failed",
                   refinement_iteration |-> current_iteration + 1,
                   next_step |-> "finalize" ], TRUE)

FinalizationOutcomes == { [polish |-> p, export |-> e] :
                            p \in {"ok", "error"}, e \in {"ok", "error"} }

\* _polish_code returning no HTML when the polishing LLM call raises
polish_code_failure_empty(code, polish) ==
    IF polish = "ok" THEN [html |-> code.html, polished |-> TRUE] ELSE NoCode

\* FinalizationAgent._polish_code: the polished html, or the original one
polish_code(code, polish) ==
    IF polish = "ok" THEN [html |-> code.html, polished |-> TRUE] ELSE code

\* FinalizationAgent._create_success_message: the summary, by the line of its
\* validation section
create_success_message(validation_report) ==
    IF ~validation_report.present THEN "success"
    ELSE IF validation_report.passed
    THEN "success: All validation checks passed"
    ELSE "success: Some validation issues detected (exported anyway)"

\* FinalizationAgent.process marking the run exported although the exporter
\* raised
FinalizationAgent_process_export_error_marked(s, o) ==
    IF s.generated_code = NoCode \/ s.feature_plan = NoPlan \/ s.branding_data = "None"
    THEN Ret([ error |-> "Missing generated code, feature plan, or branding",
               is_complete |-> TRUE,
               next_step |-> "end" ], FALSE)
    ELSE IF o.export = "ok"
    THEN Ret(mark_complete("path") @@
             [ messages |-> <<create_success_message(s.validation_report)>>,
               generated_code |-> polish_code(s.generated_code, o.polish) ], TRUE)
    ELSE Ret(mark_complete("path") @@
             [ error |-> "Export failed", next_step |-> "end" ], TRUE)

\* FinalizationAgent.process
FinalizationAgent_process(s, o) ==
    IF s.generated_code = NoCode \/ s.feature_plan = NoPlan \/ s.branding_data = "None"
    THEN Ret([ error |-> "Missing generated code, feature plan, or branding",
               is_complete |-> TRUE,
               next_step |-> "end" ], FALSE)
    ELSE IF o.export = "ok"
    THEN Ret(mark_complete("path") @@
             [ messages |-> <<create_success_message(s.validation_report)>>,
               generated_code |-> polish_code(s.generated_code, o.polish) ], TRUE)
    ELSE Ret([ error |-> "Export failed", is_complete |-> TRUE, next_step |-> "end" ],
             TRUE)

----------------------------------------------------------------------------
(* The graph *)

Nodes == {"planning", "research", "code_generation", "validation", "refinement",
          "finalization"}

\* the router deciding on the iteration limit alone
route_after_validation_limit_only(s) ==
    IF s.refinement_iteration >= s.max_refinement_iterations THEN "finalize"
    ELSE "refine"

\* the router with the iteration limit compared by > instead of >=
route_after_validation_off_by_one(s) ==
    IF s.validation_passed THEN "finalize"
    ELSE IF s.refinement_iteration > s.max_refinement_iterations THEN "finalize"
    ELSE "refine"

\* BrazeCodeGeneratorWorkflow._route_after_validation
route_after_validation(s) ==
    IF s.validation_passed THEN "finalize"
    ELSE IF s.refinement_iteration >= s.max_refinement_iterations THEN "finalize"
    ELSE "refine"

\* the graph with Refinement followed by Finalization, without a new Validation
Edge_refinement_to_finalize(node, s) ==
    CASE node = "planning" -> "research"
      [] node = "research" -> "code_generation"
      [] node = "code_generation" -> "validation"
      [] node = "validation" ->
            IF route_after_validation(s) = "refine" THEN "refinement" ELSE "finalization"
      [] node = "refinement" -> "finalization"
      [] node = "finalization" -> "END"

\* the graph with the router's finalize answer mapped to the end of the graph
Edge_finalize_to_end(node, s) ==
    CASE node = "planning" -> "research"
      [] node = "research" -> "code_generation"
      [] node = "code_generation" -> "validation"
      [] node = "validation" ->
            IF s.validation_passed
               \/ s.refinement_iteration >= s.max_refinement_iterations
            THEN "END" ELSE "refinement"
      [] node = "refinement" -> "validation"
      [] node = "finalization" -> "END"

\* BrazeCodeGeneratorWorkflow._build_graph: the edge leaving node, taken on the
\* state s the node's update was merged into
Edge(node, s) ==
    CASE node = "planning" -> "research"
      [] node = "research" -> "code_generation"
      [] node = "code_generation" -> "validation"
      [] node = "validation" ->
            IF route_after_validation(s) = "refine" THEN "refinement" ELSE "finalization"
      [] node = "refinement" -> "validation"
      [] node = "finalization" -> "END"

----------------------------------------------------------------------------
(* The documentation-search client: no call is in progress *)

MAX_RETRIES == 3

Threads == 1..MaxThreads

NoThread == [pc |-> "idle", attempt |-> 0, exc |-> "none", result |-> "none",
             loop |-> FALSE]

McpInit ==
    /\ connection_lock = 0
    /\ thread = [t \in Threads |-> NoThread]
    /\ sessions = {}

----------------------------------------------------------------------------
(* The engine and the orchestrator *)

Urls == {"None", "url"}
Ms == 0..MaxM

IdleState == create_initial_state("None", "None", 3)

Init ==
    /\ braze_api_config \in {"None", "config"}
    /\ enable_browser_testing \in BOOLEAN
    /\ mode = "idle"
    /\ state = IdleState
    /\ pc = "idle"
    /\ phase = "ready"
    /\ call = NoCall
    /\ final_state = NoChunk
    /\ events = <<>>
    /\ yielded = {}
    /\ stream = "none"
    /\ result = "none"
    /\ stop_event = FALSE
    /\ stoppedIn = "none"
    /\ afterStop = {}
    /\ validations = 0
    /\ refineFailed = FALSE
    /\ text = NoText
    /\ reply = "none"
    /\ McpInit

Event(type, node) == [type |-> type, node |-> node]

\* the window of the last MaxEvents events after new ones were yielded
Push(evs, new) ==
    LET all == evs \o new
    IN  IF Len(all) > MaxEvents
        THEN SubSeq(all, Len(all) - MaxEvents + 1, Len(all))
        ELSE all

Types(evs) == { evs[i].type : i \in 1..Len(evs) }

\* stream_workflow: the events yielded for the chunk of one node
ChunkEvents(node, out) ==
    <<Event("node_start", node), Event("node_complete", node)>>
    \o (IF Has(out, "error") /\ out.error # "None"
        THEN <<Event("error", node)>> ELSE <<>>)
    \o (IF Has(out, "messages") /\ out.messages # <<>>
        THEN <<Event("message", node)>> ELSE <<>>)

\* the shortest API key the UI accepts
MinKeyLength == 32

\* an API key is given by its length, an SDK endpoint is empty or not
KeyLengths == {0, MinKeyLength - 1, MinKeyLength, MinKeyLength + 1}
Endpoints == {"", "endpoint"}

\* Orchestrator.set_braze_api_config
set_braze_api_config ==
    braze_api_config' = "config"

\* validate_api_config storing a configuration whose endpoint is empty
validate_api_config_endpoint_unchecked(api_key, sdk_endpoint) ==
    /\ mode = "idle"
    /\ IF api_key = 0 \/ api_key < MinKeyLength
       THEN /\ call' = [op |-> "validate_api_config",
                        input |-> [api_key |-> api_key, sdk_endpoint |-> sdk_endpoint],
                        pre |-> braze_api_config, out |-> "Invalid API key format"]
            /\ UNCHANGED braze_api_config
       ELSE /\ call' = [op |-> "validate_api_config",
                        input |-> [api_key |-> api_key, sdk_endpoint |-> sdk_endpoint],
                        pre |-> braze_api_config, out |-> "validated"]
            /\ set_braze_api_config
    /\ UNCHANGED <<reply, mcpVars, text, enable_browser_testing, mode, state, pc, phase, final_state,
                   events, yielded, stream, result, stop_event, stoppedIn, afterStop,
                   validations, refineFailed>>

\* BrazeCodeGenUI.validate_api_config and the validation handler of the
\* streamlit app: the key and the endpoint are checked, and a configuration
\* built from an accepted pair is stored in the orchestrator
validate_api_config(api_key, sdk_endpoint) ==
    /\ mode = "idle"
    /\ IF api_key = 0 \/ api_key < MinKeyLength
       THEN /\ call' = [op |-> "validate_api_config",
                        input |-> [api_key |-> api_key, sdk_endpoint |-> sdk_endpoint],
                        pre |-> braze_api_config, out |-> "Invalid API key format"]
            /\ UNCHANGED braze_api_config
       ELSE IF sdk_endpoint = ""
       THEN /\ call' = [op |-> "validate_api_config",
                        input |-> [api_key |-> api_key, sdk_endpoint |-> sdk_endpoint],
                        pre |-> braze_api_config, out |-> "SDK endpoint is required"]
            /\ UNCHANGED braze_api_config
       ELSE /\ call' = [op |-> "validate_api_config",
                        input |-> [api_key |-> api_key, sdk_endpoint |-> sdk_endpoint],
                        pre |-> braze_api_config, out |-> "validated"]
            /\ set_braze_api_config
    /\ UNCHANGED <<reply, mcpVars, text, enable_browser_testing, mode, state, pc, phase, final_state,
                   events, yielded, stream, result, stop_event, stoppedIn, afterStop,
                   validations, refineFailed>>

Configure ==
    \E api_key \in KeyLengths, sdk_endpoint \in Endpoints :
        validate_api_config(api_key, sdk_endpoint)

\* generate_streaming starting the pipeline whether or not a configuration is
\* stored
generate_streaming_config_unchecked(url, M) ==
    /\ mode = "idle"
    /\ mode' = "streaming"
    /\ state' = create_initial_state(url, braze_api_config, M)
    /\ pc' = "planning"
    /\ stream' = "open"
    /\ UNCHANGED <<events, yielded>>
    /\ UNCHANGED <<reply, mcpVars, text, braze_api_config, enable_browser_testing, phase, call,
                   final_state, result, stop_event, stoppedIn, afterStop, validations,
                   refineFailed>>

\* Orchestrator.generate_streaming going on to the graph after the error event
\* of a missing configuration
generate_streaming_error_not_returned(url, M) ==
    /\ mode = "idle"
    /\ mode' = "streaming"
    /\ IF braze_api_config = "None"
       THEN /\ events' = Push(events, <<Event("error", "orchestrator")>>)
            /\ yielded' = yielded \cup {"error"}
       ELSE UNCHANGED <<events, yielded>>
    /\ state' = create_initial_state(url, braze_api_config, M)
    /\ pc' = "planning"
    /\ stream' = "open"
    /\ UNCHANGED <<reply, mcpVars, text, braze_api_config, enable_browser_testing, phase, call, final_state,
                   result, stop_event, stoppedIn, afterStop, validations, refineFailed>>

\* Orchestrator.generate_streaming, up to the first chunk
generate_streaming(url, M) ==
    /\ mode = "idle"
    /\ mode' = "streaming"
    /\ IF braze_api_config = "None"
       THEN /\ events' = Push(events, <<Event("error", "orchestrator")>>)
            /\ yielded' = yielded \cup {"error"}
            /\ stream' = "closed"
            /\ UNCHANGED <<state, pc>>
       ELSE /\ state' = create_initial_state(url, braze_api_config, M)
            /\ pc' = "planning"
            /\ stream' = "open"
            /\ UNCHANGED <<events, yielded>>
    /\ UNCHANGED <<reply, mcpVars, text, braze_api_config, enable_browser_testing, phase, call, final_state,
                   result, stop_event, stoppedIn, afterStop, validations, refineFailed>>

\* Orchestrator.generate, up to the invocation of the graph
generate(url, M) ==
    /\ mode = "idle"
    /\ mode' = "blocking"
    /\ IF braze_api_config = "None"
       THEN /\ result' = "raised"
            /\ UNCHANGED <<state, pc>>
       ELSE /\ state' = create_initial_state(url, braze_api_config, M)
            /\ pc' = "planning"
            /\ UNCHANGED result
    /\ UNCHANGED <<reply, mcpVars, text, braze_api_config, enable_browser_testing, phase, call, final_state,
                   events, yielded, stream, stop_event, stoppedIn, afterStop,
                   validations, refineFailed>>

\* the engine enters the node pc: its process method starts
StageBegin ==
    /\ pc \in Nodes
    /\ phase = "ready"
    /\ phase' = "running"
    /\ afterStop' = IF stop_event THEN afterStop \cup {pc} ELSE afterStop
    /\ validations' = IF pc = "validation" /\ validations < MaxCount
                      THEN validations + 1 ELSE validations
    /\ UNCHANGED <<reply, mcpVars, text, braze_api_config, enable_browser_testing, mode, state, pc, call,
                   final_state, events, yielded, stream, result, stop_event, stoppedIn,
                   refineFailed>>

\* the node pc ends with r: the engine merges its update and follows the edge
\* (graph.stream / graph.invoke), and stream_workflow yields the chunk's events;
\* an exception that escapes the node ends the graph
StageEnd(node, r) ==
    /\ pc = node
    /\ phase = "running"
    /\ phase' = "ready"
    /\ call' = [op |-> node, pre |-> state, out |-> r.out, llm |-> r.llm,
                raised |-> r.raised]
    /\ IF r.raised
       THEN /\ pc' = "raised"
            /\ UNCHANGED <<state, final_state>>
            /\ IF mode = "streaming"
               THEN /\ events' = Push(events, <<Event("error", "workflow")>>)
                    /\ yielded' = yielded \cup {"error"}
                    /\ stream' = "closed"
                    /\ UNCHANGED result
               ELSE /\ result' = "raised"
                    /\ UNCHANGED <<events, yielded, stream>>
       ELSE /\ state' = Merge(state, r.out)
            /\ pc' = Edge(node, state')
            /\ UNCHANGED <<result, stream>>
            /\ IF mode = "streaming"
               THEN /\ final_state' = r.out
                    /\ events' = Push(events, ChunkEvents(node, r.out))
                    /\ yielded' = yielded \cup Types(ChunkEvents(node, r.out))
               ELSE UNCHANGED <<final_state, events, yielded>>
    /\ UNCHANGED <<reply, mcpVars, text, braze_api_config, enable_browser_testing, mode, stop_event,
                   stoppedIn, afterStop, validations>>

Planning ==
    /\ \E o \in PlanningOutcomes : StageEnd("planning", LeadAgent_process(state, o))
    /\ UNCHANGED refineFailed

Research ==
    /\ \E o \in ResearchOutcomes : StageEnd("research", ResearchAgent_process(state, o))
    /\ UNCHANGED refineFailed

CodeGeneration ==
    /\ \E o \in CodeGenerationOutcomes :
          StageEnd("code_generation", CodeGenerationAgent_process(state, o))
    /\ UNCHANGED refineFailed

Validation ==
    /\ \E o \in ValidationOutcomes :
          StageEnd("validation", ValidationAgent_process(state, o, enable_browser_testing))
    /\ UNCHANGED refineFailed

Refinement ==
    \E o \in RefinementOutcomes :
        /\ StageEnd("refinement", RefinementAgent_process(state, o))
        /\ refineFailed' = (refineFailed \/
                              (o = "error" /\ RefinementAgent_process(state, o).llm))

Finalization ==
    /\ \E o \in FinalizationOutcomes :
          StageEnd("finalization", FinalizationAgent_process(state, o))
    /\ UNCHANGED refineFailed

\* the complete event stream_workflow builds from the last chunk
CompleteEvent(chunk) ==
    [ type |-> "complete", node |-> "END",
      export_file_path |-> chunk.export_file_path,
      branding_data |-> get(chunk, "branding_data"),
      generated_code |-> get(chunk, "generated_code") ]

\* stream_workflow after the last chunk: the complete event, if the last chunk
\* carries an export path
StreamEnd ==
    /\ mode = "streaming"
    /\ stream = "open"
    /\ pc = "END"
    /\ stream' = "closed"
    /\ IF final_state # NoChunk /\ Has(final_state, "export_file_path")
       THEN /\ events' = Push(events, <<CompleteEvent(final_state)>>)
            /\ yielded' = yielded \cup {"complete"}
       ELSE UNCHANGED <<events, yielded>>
    /\ UNCHANGED <<reply, mcpVars, text, braze_api_config, enable_browser_testing, mode, state, pc, phase,
                   call, final_state, result, stop_event, stoppedIn, afterStop,
                   validations, refineFailed>>

\* Orchestrator.generate returns the final state of graph.invoke
GenerateReturn ==
    /\ mode = "blocking"
    /\ result = "none"
    /\ pc = "END"
    /\ result' = "returned"
    /\ UNCHANGED <<reply, mcpVars, text, braze_api_config, enable_browser_testing, mode, state, pc, phase,
                   call, final_state, events, yielded, stream, stop_event, stoppedIn,
                   afterStop, validations, refineFailed>>

\* Orchestrator.process_message, after its call of generate: the success text
\* built from the state generate returned, or, in the except clause, the error
\* text of the exception generate raised
process_message ==
    /\ mode = "blocking"
    /\ result \in {"returned", "raised"}
    /\ reply = "none"
    /\ reply' = IF result = "returned"
                THEN "Landing page generated successfully"
                ELSE "Error"
    /\ UNCHANGED <<mcpVars, text, braze_api_config, enable_browser_testing, mode, state, pc, phase,
                   call, final_state, events, yielded, stream, result, stop_event,
                   stoppedIn, afterStop, validations, refineFailed>>

\* the stop handler of the UI: sets the stop event while a stream is running
Stop ==
    /\ mode = "streaming"
    /\ stream = "open"
    /\ ~stop_event
    /\ stop_event' = TRUE
    /\ stoppedIn' = IF phase = "running" THEN pc ELSE "between"
    /\ UNCHANGED <<reply, mcpVars, text, braze_api_config, enable_browser_testing, mode, state, pc, phase,
                   call, final_state, events, yielded, stream, result, afterStop,
                   validations, refineFailed>>

Start ==
    \E url \in Urls, M \in Ms : generate_streaming(url, M) \/ generate(url, M)

Next ==
    \/ Configure
    \/ Start
    \/ StageBegin
    \/ Planning
    \/ Research
    \/ CodeGeneration
    \/ Validation
    \/ Refinement
    \/ Finalization
    \/ StreamEnd
    \/ GenerateReturn
    \/ process_message
    \/ Stop

Spec == Init /\ [][Next]_vars

\* the engine keeps stepping the graph and the generator is drained
FairSpec == Spec /\ WF_vars(Next)

TypeOK ==
    /\ pc \in Nodes \cup {"idle", "END", "raised", "unit", "text", "mcp"}
    /\ phase \in {"ready", "running"}
    /\ state.refinement_iteration \in Nat
    /\ reply \in {"none", "Landing page generated successfully", "Error"}

----------------------------------------------------------------------------
(* Direct calls: the router and the stages applied to states built by the  *)
(* caller, as a test of one stage does                                     *)

SomeCode == [html |-> 1, polished |-> FALSE]
SomeReport == [present |-> TRUE, passed |-> FALSE, issues |-> <<"error">>, code |-> SomeCode]

UnitStates ==
    { [ create_initial_state("None", cfg, M) EXCEPT
          !.feature_plan = fp, !.branding_data = bd, !.generated_code = gc,
          !.validation_report = vr, !.validation_passed = vp,
          !.refinement_iteration = it ] :
        cfg \in {"None", "config"}, M \in Ms, fp \in {NoPlan, LlmPlan},
        bd \in {"None", "branding"}, gc \in {NoCode, SomeCode},
        vr \in {NoReport, SomeReport}, vp \in BOOLEAN, it \in 0..MaxIter }

InitUnit ==
    /\ braze_api_config = "config"
    /\ enable_browser_testing \in BOOLEAN
    /\ mode = "unit"
    /\ state \in UnitStates
    /\ pc = "unit"
    /\ phase = "ready"
    /\ call = NoCall
    /\ final_state = NoChunk
    /\ events = <<>>
    /\ yielded = {}
    /\ stream = "none"
    /\ result = "none"
    /\ stop_event = FALSE
    /\ stoppedIn = "none"
    /\ afterStop = {}
    /\ validations = 0
    /\ refineFailed = FALSE
    /\ text = NoText
    /\ reply = "none"
    /\ McpInit

\* a direct call of op on the state built by the caller, with the outcomes o
\* of its collaborators: it returns r and leaves the state alone
DirectCall(op, o, r) ==
    /\ mode = "unit"
    /\ call = NoCall
    /\ call' = [op |-> op, input |-> o, pre |-> state, out |-> r.out,
                llm |-> r.llm, raised |-> r.raised]
    /\ UNCHANGED <<reply, mcpVars, text, braze_api_config, enable_browser_testing, mode, state, pc, phase,
                   final_state, events, yielded, stream, result, stop_event,
                   stoppedIn, afterStop, validations, refineFailed>>

CallRouter ==
    DirectCall("router", "none", Ret([route |-> route_after_validation(state)], FALSE))

CallPlanning ==
    \E o \in PlanningOutcomes : DirectCall("planning", o, LeadAgent_process(state, o))

CallResearch ==
    \E o \in ResearchOutcomes : DirectCall("research", o, ResearchAgent_process(state, o))

CallCodeGeneration ==
    \E o \in CodeGenerationOutcomes :
        DirectCall("code_generation", o, CodeGenerationAgent_process(state, o))

CallValidation ==
    \E o \in ValidationOutcomes :
        DirectCall("validation", o,
                   ValidationAgent_process(state, o, enable_browser_testing))

CallRefinement ==
    \E o \in RefinementOutcomes :
        DirectCall("refinement", o, RefinementAgent_process(state, o))

CallFinalization ==
    \E o \in FinalizationOutcomes :
        DirectCall("finalization", o, FinalizationAgent_process(state, o))

NextUnit ==
    \/ CallRouter
    \/ CallPlanning
    \/ CallResearch
    \/ CallCodeGeneration
    \/ CallValidation
    \/ CallRefinement
    \/ CallFinalization

UnitSpec == InitUnit /\ [][NextUnit]_vars

----------------------------------------------------------------------------
(* The text functions: the HTML cleaner of the code-producing stages and   *)
(* the default plan's title, applied to texts built by the caller.  An LLM *)
(* response is a sequence of tokens, a host name a sequence of characters. *)
(* The token "fence" is the three backquotes that open or close a code     *)
(* block; followed by "html" it is the opening of a block tagged html.     *)

Tokens == {"fence", "html", "\n", "<!DOCTYPE html>", "<html", "<div"}
HtmlTexts == UNION { [1..n -> Tokens] : n \in 0..MaxLen }

HostChars == {"w", "a", "A", "."}
Netlocs == UNION { [1..n -> HostChars] : n \in 0..MaxHost }

\* position of the first occurrence of pattern in t, 0 if there is none
find(t, pattern) ==
    LET at(i) == SubSeq(t, i, i + Len(pattern) - 1) = pattern
        hits == { i \in 1..(Len(t) - Len(pattern) + 1) : at(i) }
    IN  IF hits = {} THEN 0 ELSE CHOOSE i \in hits : \A j \in hits : i <= j

\* t.split(pattern)[0]
split_0(t, pattern) ==
    IF find(t, pattern) = 0 THEN t ELSE SubSeq(t, 1, find(t, pattern) - 1)

\* t.split(pattern)[1], for a t that contains pattern
split_1(t, pattern) ==
    split_0(Drop(t, find(t, pattern) + Len(pattern) - 1), pattern)

\* t.strip()
strip(t) ==
    LET solid == { i \in 1..Len(t) : t[i] # "\n" }
    IN  IF solid = {} THEN <<>>
        ELSE SubSeq(t, CHOOSE i \in solid : \A j \in solid : i <= j,
                       CHOOSE i \in solid : \A j \in solid : i >= j)

\* the doctype step of clean_html_response
ensure_doctype(t) ==
    IF ~startswith(t, <<"<!DOCTYPE html>">>) /\ startswith(t, <<"<html">>)
    THEN <<"<!DOCTYPE html>", "\n">> \o t
    ELSE t

\* clean_html_response that keeps what follows the closing fence of an html
\* block
clean_html_response_closing_fence_kept(html_content) ==
    LET unfenced ==
          IF find(html_content, <<"fence", "html">>) # 0
          THEN split_1(html_content, <<"fence", "html">>)
          ELSE IF find(html_content, <<"fence">>) # 0
          THEN split_1(html_content, <<"fence">>)
          ELSE html_content
    IN  ensure_doctype(strip(unfenced))

\* clean_html_response (utils/html_utils.py) and the _clean_html_response
\* methods of the code generation and refinement agents, which have the same body
clean_html_response(html_content) ==
    LET unfenced ==
          IF find(html_content, <<"fence", "html">>) # 0
          THEN split_0(split_1(html_content, <<"fence", "html">>), <<"fence">>)
          ELSE IF find(html_content, <<"fence">>) # 0
          THEN split_1(html_content, <<"fence">>)
          ELSE html_content
    IN  ensure_doctype(strip(unfenced))

\* a user message is a sequence of words: plain words, http(s) URLs, bare
\* domain names, and the two placeholder domains
UrlWords == {"https://a.io", "http://b.io"}
PlaceholderDomains == {"example.com", "test.com"}
DomainWords == {"acme.com", "shop.io"} \cup PlaceholderDomains
MessageWords == {"hello"} \cup UrlWords \cup DomainWords
Messages == UNION { [1..n -> MessageWords] : n \in 0..MaxMsg }
SuppliedUrls == {"None", "https://given.io"}

\* re.findall(pattern, message): the words the pattern matches, in order
findall(words, message) == SelectSeq(message, LAMBDA w : w \in words)

\* _extract_url_from_message with the domains left unfiltered
extract_url_from_message_unfiltered(message) ==
    LET urls == findall(UrlWords, message)
        domains == findall(DomainWords, message)
    IN  IF urls # <<>> THEN urls[1]
        ELSE IF domains # <<>> THEN <<"https://", domains[1]>>
        ELSE "None"

\* LeadAgent._extract_url_from_message
extract_url_from_message(message) ==
    LET urls == findall(UrlWords, message)
        domains == findall(DomainWords, message)
        filtered == SelectSeq(domains, LAMBDA d : d \notin PlaceholderDomains)
    IN  IF urls # <<>> THEN urls[1]
        ELSE IF domains # <<>> /\ filtered # <<>> THEN <<"https://", filtered[1]>>
        ELSE "None"

\* LeadAgent.process: the URL of the state if there is one, else the one
\* extracted from the message
resolve_customer_website_url(supplied, message) ==
    IF supplied # "None" THEN supplied ELSE extract_url_from_message(message)

TextInputs ==
    { [kind |-> "message", op |-> "none", arg |-> [supplied |-> u, message |-> m],
       out |-> "None", again |-> "None"] : u \in SuppliedUrls, m \in Messages }
    \cup
    { [kind |-> "html", op |-> "none", arg |-> t, out |-> <<>>, again |-> <<>>] :
        t \in HtmlTexts }
    \cup
    { [kind |-> "url", op |-> "none", arg |-> [present |-> TRUE, netloc |-> n],
       out |-> NoPlan, again |-> NoPlan] : n \in Netlocs }
    \cup
    { [kind |-> "url", op |-> "none", arg |-> [present |-> FALSE, netloc |-> <<>>],
       out |-> NoPlan, again |-> NoPlan] }

InitText ==
    /\ braze_api_config = "config"
    /\ enable_browser_testing = TRUE
    /\ mode = "text"
    /\ state = IdleState
    /\ pc = "text"
    /\ phase = "ready"
    /\ call = NoCall
    /\ final_state = NoChunk
    /\ events = <<>>
    /\ yielded = {}
    /\ stream = "none"
    /\ result = "none"
    /\ stop_event = FALSE
    /\ stoppedIn = "none"
    /\ afterStop = {}
    /\ validations = 0
    /\ refineFailed = FALSE
    /\ text \in TextInputs
    /\ reply = "none"
    /\ McpInit

\* the cleaner applied to an LLM response
CleanHtml ==
    /\ mode = "text"
    /\ text.kind = "html"
    /\ text.op = "none"
    /\ text' = [text EXCEPT !.op = "clean_html_response",
                            !.out = clean_html_response(text.arg)]
    /\ UNCHANGED <<reply, mcpVars, braze_api_config, enable_browser_testing, mode, state, pc, phase,
                   call, final_state, events, yielded, stream, result, stop_event,
                   stoppedIn, afterStop, validations, refineFailed>>

\* the cleaner applied to its own result
CleanHtmlAgain ==
    /\ mode = "text"
    /\ text.kind = "html"
    /\ text.op = "clean_html_response"
    /\ text' = [text EXCEPT !.op = "cleaned_twice",
                            !.again = clean_html_response(text.out)]
    /\ UNCHANGED <<reply, mcpVars, braze_api_config, enable_browser_testing, mode, state, pc, phase,
                   call, final_state, events, yielded, stream, result, stop_event,
                   stoppedIn, afterStop, validations, refineFailed>>

\* the default plan created for a URL, twice
CreateDefaultPlan ==
    /\ mode = "text"
    /\ text.kind = "url"
    /\ text.op = "none"
    /\ text' = [text EXCEPT
                  !.op = "create_default_plan",
                  !.out = create_default_plan(text.arg.present, text.arg.netloc),
                  !.again = create_default_plan(text.arg.present, text.arg.netloc)]
    /\ UNCHANGED <<reply, mcpVars, braze_api_config, enable_browser_testing, mode, state, pc, phase,
                   call, final_state, events, yielded, stream, result, stop_event,
                   stoppedIn, afterStop, validations, refineFailed>>

\* Planning resolving the customer website URL
ResolveUrl ==
    /\ mode = "text"
    /\ text.kind = "message"
    /\ text.op = "none"
    /\ text' = [text EXCEPT
                  !.op = "resolve_url",
                  !.out = resolve_customer_website_url(text.arg.supplied,
                                                       text.arg.message)]
    /\ UNCHANGED <<reply, mcpVars, braze_api_config, enable_browser_testing, mode, state, pc, phase,
                   call, final_state, events, yielded, stream, result, stop_event,
                   stoppedIn, afterStop, validations, refineFailed>>

NextText ==
    \/ ResolveUrl
    \/ CleanHtml
    \/ CleanHtmlAgain
    \/ CreateDefaultPlan

TextSpec == InitText /\ [][NextText]_vars

----------------------------------------------------------------------------
(* The run_mcp_* wrappers called by concurrent threads.  A thread is at     *)
(* "attempt" before an attempt of _run_with_retry, at "locked" inside the   *)
(* with-block before the session opens, at "connected" while its session is *)
(* open, at "leaving" when the coroutine has ended and the with-block is    *)
(* about to be left, at "caught" in the except clause, and at "returned" or *)
(* "raised" when _run_with_retry has ended.  When the caller is in an async *)
(* context the with-block runs in a pool thread the caller waits for.       *)

engineVars == <<braze_api_config, enable_browser_testing, mode, state, pc, phase, call,
                final_state, events, yielded, stream, result, stop_event, stoppedIn,
                afterStop, validations, refineFailed, text, reply>>

InitMcp ==
    /\ braze_api_config = "config"
    /\ enable_browser_testing = TRUE
    /\ mode = "mcp"
    /\ state = IdleState
    /\ pc = "mcp"
    /\ phase = "ready"
    /\ call = NoCall
    /\ final_state = NoChunk
    /\ events = <<>>
    /\ yielded = {}
    /\ stream = "none"
    /\ result = "none"
    /\ stop_event = FALSE
    /\ stoppedIn = "none"
    /\ afterStop = {}
    /\ validations = 0
    /\ refineFailed = FALSE
    /\ text = NoText
    /\ reply = "none"
    /\ McpInit

\* the exceptions of one attempt, by message and type: "race" is a RuntimeError
\* whose message names a race ('Racing with another loop'), "spawn" an exception
\* of another type whose message names one ('cannot spawn'), "runtime" any
\* other RuntimeError, "other" any other exception
Excs == {"race", "spawn", "runtime", "other"}
RaceMessages == {"race", "spawn"}
RuntimeErrors == {"race", "runtime"}

\* run_mcp_search, run_mcp_get_examples, run_mcp_get_event_schema,
\* run_mcp_get_setup_checklist: thread t enters _run_with_retry
run_mcp(t) ==
    /\ mode = "mcp"
    /\ thread[t].pc = "idle"
    /\ \E loop \in BOOLEAN :
          thread' = [thread EXCEPT ![t] = [NoThread EXCEPT !.pc = "attempt",
                                                           !.loop = loop]]
    /\ UNCHANGED <<engineVars, connection_lock, sessions>>

\* _run_with_lock entered without waiting for the lock
run_with_lock_unlocked(t) ==
    /\ thread[t].pc = "attempt"
    /\ connection_lock' = t
    /\ thread' = [thread EXCEPT ![t].pc = "locked"]
    /\ UNCHANGED <<engineVars, sessions>>

\* _run_with_lock: `with _connection_lock:` is entered when the lock is free
run_with_lock(t) ==
    /\ thread[t].pc = "attempt"
    /\ connection_lock = 0
    /\ connection_lock' = t
    /\ thread' = [thread EXCEPT ![t].pc = "locked"]
    /\ UNCHANGED <<engineVars, sessions>>

\* BrazeMCPClient.connect inside asyncio.run: the session opens, or spawning
\* the server or initialising the session raises
connect(t) ==
    /\ thread[t].pc = "locked"
    /\ \/ /\ sessions' = sessions \cup {t}
          /\ thread' = [thread EXCEPT ![t].pc = "connected"]
       \/ /\ \E e \in Excs : thread' = [thread EXCEPT ![t].pc = "leaving", ![t].exc = e]
          /\ UNCHANGED sessions
    /\ UNCHANGED <<engineVars, connection_lock>>

\* the tool call on the open session; leaving `async with client.connect()`
\* closes the session, with the result or with the exception of the call
call_tool(t) ==
    /\ thread[t].pc = "connected"
    /\ sessions' = sessions \ {t}
    /\ \E e \in Excs \cup {"none"} :
          thread' = [thread EXCEPT ![t].pc = "leaving", ![t].exc = e]
    /\ UNCHANGED <<engineVars, connection_lock>>

\* the with-block is left: the lock is released.  The result is returned.  An
\* exception goes to the except clause of the retry loop, except that, when
\* the caller is in a running event loop (the attempt ran in a pool thread),
\* a RuntimeError is caught by `except RuntimeError`, which calls
\* _run_with_lock in the caller's thread
release(t) ==
    /\ thread[t].pc = "leaving"
    /\ connection_lock' = 0
    /\ thread' = [thread EXCEPT ![t] =
                    IF thread[t].exc = "none"
                    THEN [thread[t] EXCEPT !.pc = "returned"]
                    ELSE IF thread[t].loop /\ thread[t].exc \in RuntimeErrors
                    THEN [thread[t] EXCEPT !.pc = "fallback"]
                    ELSE [thread[t] EXCEPT !.pc = "caught"]]
    /\ UNCHANGED <<engineVars, sessions>>

\* _run_with_lock called from `except RuntimeError` in a running event loop:
\* `with _connection_lock:` is entered when the lock is free
run_with_lock_in_loop(t) ==
    /\ thread[t].pc = "fallback"
    /\ connection_lock = 0
    /\ connection_lock' = t
    /\ thread' = [thread EXCEPT ![t].pc = "fallback locked"]
    /\ UNCHANGED <<engineVars, sessions>>

\* asyncio.run in a running event loop raises a RuntimeError without running
\* the coroutine; the with-block is left and the exception goes to the except
\* clause of the retry loop
asyncio_run_in_loop(t) ==
    /\ thread[t].pc = "fallback locked"
    /\ connection_lock' = 0
    /\ thread' = [thread EXCEPT ![t].pc = "caught", ![t].exc = "runtime"]
    /\ UNCHANGED <<engineVars, sessions>>

\* the except clause of _run_with_retry: a race is retried while attempts are
\* left, anything else is raised
retry(t) ==
    /\ thread[t].pc = "caught"
    /\ thread' = [thread EXCEPT ![t] =
                    IF thread[t].exc \in RaceMessages /\ thread[t].attempt < MAX_RETRIES - 1
                    THEN [thread[t] EXCEPT !.pc = "attempt", !.attempt = @ + 1,
                                           !.exc = "none"]
                    ELSE [thread[t] EXCEPT !.pc = "raised", !.exc = "none"]]
    /\ UNCHANGED <<engineVars, connection_lock, sessions>>

\* a documentation tool whose exception handler is missing
wrapper_done_unhandled(t) ==
    /\ thread[t].pc \in {"returned", "raised"}
    /\ thread' = [thread EXCEPT ![t] =
                    IF thread[t].pc = "returned"
                    THEN [thread[t] EXCEPT !.pc = "idle", !.result = "content",
                                           !.loop = FALSE]
                    ELSE [thread[t] EXCEPT !.pc = "idle", !.result = "exception",
                                           !.loop = FALSE]]
    /\ UNCHANGED <<engineVars, connection_lock, sessions>>

\* search_braze_docs, get_braze_code_examples, get_braze_event_schema,
\* get_braze_setup_checklist: each returns the result of its run_mcp_* call,
\* or, in its except clause, an error string; the attempt count of the call
\* stays readable until the thread's next call
wrapper_done(t) ==
    /\ thread[t].pc \in {"returned", "raised"}
    /\ thread' = [thread EXCEPT ![t] =
                    IF thread[t].pc = "returned"
                    THEN [thread[t] EXCEPT !.pc = "idle", !.result = "content",
                                           !.loop = FALSE]
                    ELSE [thread[t] EXCEPT !.pc = "idle", !.result = "error string",
                                           !.loop = FALSE]]
    /\ UNCHANGED <<engineVars, connection_lock, sessions>>

NextMcp ==
    \E t \in Threads :
        \/ run_mcp(t)
        \/ run_with_lock(t)
        \/ connect(t)
        \/ call_tool(t)
        \/ release(t)
        \/ run_with_lock_in_loop(t)
        \/ asyncio_run_in_loop(t)
        \/ retry(t)
        \/ wrapper_done(t)

McpSpec == InitMcp /\ [][NextMcp]_vars

----------------------------------------------------------------------------
(* Properties *)

iteration == state.refinement_iteration
maxIterations == state.max_refinement_iterations
Running(node) == pc = node /\ phase = "running"
\* the step in which the process method of node returns its update
Returns(node) == pc = node /\ phase = "running" /\ phase' = "ready" /\ pc' # "raised"
LastEvent == events[Len(events)]
FinalTypes == {"complete", "error", "cancelled"}

\* C1: a run executes Validation at most max_refinement_iterations + 1 times
C1_ValidationsBounded ==
    mode \in {"streaming", "blocking"} => validations <= maxIterations + 1

\* C2: every run whose stages all return reaches End through Finalization
C2_RunTerminates ==
    (pc = "planning") ~> (pc = "END" \/ pc = "raised")

\* C3: every Refinement execution that returns increases refinement_iteration
\* by exactly 1
C3_RefinementIncrements ==
    [][Returns("refinement") => state'.refinement_iteration = iteration + 1]_vars

\* C4: once a Refinement has failed with an exception, no Refinement executes
\* again in the run
C4_NoRefinementAfterFailure ==
    refineFailed => ~Running("refinement")

\* C5: when the stop event is set while Research executes, no further stage
\* executes and the stream yields a cancelled event
C5_CancelMidResearch ==
    stoppedIn = "research" =>
        /\ afterStop = {}
        /\ (stream = "closed" => "cancelled" \in yielded)

C7_RouterRule ==
    call.op = "router" =>
        LET s == call.pre
            r == call.out.route
        IN  /\ s.validation_passed => r = "finalize"
            /\ (~s.validation_passed
                  /\ s.refinement_iteration >= s.max_refinement_iterations)
                 => r = "finalize"
            /\ (~s.validation_passed
                  /\ s.refinement_iteration < s.max_refinement_iterations)
                 => r = "refine"
            /\ DOMAIN call.out = {"route"}
            /\ state = s

C7_Witness ==
    /\ call.op = "router"
    /\ ~call.pre.validation_passed
    /\ call.pre.refinement_iteration < call.pre.max_refinement_iterations
    /\ call.out.route = "refine"

\* C8: the stage the graph enters after a Validation that returned, also one
\* that returned an error update, is Refinement or Finalization and no other
C8_RefinementOrFinalizationFollows ==
    /\ [][Returns("validation") => pc' \in {"refinement", "finalization"}]_vars
    /\ [][(call.op = "validation" /\ phase = "ready" /\ phase' = "running")
            => pc' \in {"refinement", "finalization"}]_vars

C8_Witness ==
    /\ call.op = "validation"
    /\ Has(call.out, "error")
    /\ Running("refinement")

\* C9: refinement_iteration stays within 0..max_refinement_iterations, never
\* decreases, and only Refinement changes it
C9_IterationBounded ==
    /\ [](0 <= iteration /\ iteration <= maxIterations)
    /\ [][state'.refinement_iteration >= iteration]_vars
    /\ [][pc # "refinement" => state'.refinement_iteration = iteration]_vars

C9_Witness ==
    /\ pc = "finalization"
    /\ iteration >= 1
    /\ iteration = maxIterations
    /\ ~state.validation_passed

\* C10: CodeGeneration called without a feature plan returns an error update
\* with next_step error_handler, no generated code, and does not call the LLM
C10_CodeGenerationWithoutPlan ==
    (call.op = "code_generation" /\ call.pre.feature_plan = NoPlan) =>
        /\ ~call.raised
        /\ Has(call.out, "error")
        /\ call.out.error # "None"
        /\ call.out.next_step = "error_handler"
        /\ ~Has(call.out, "generated_code")
        /\ ~call.llm

C10_Witness ==
    /\ call.op = "code_generation"
    /\ call.pre.feature_plan = NoPlan
    /\ call.pre.branding_data # "None"
    /\ call.pre.braze_api_config # "None"
    /\ Has(call.out, "error")

\* C11: Validation never executes while generated_code is absent, and after a
\* CodeGeneration that returned an error update (which leaves generated_code
\* absent) neither Validation nor Refinement executes
C11_ValidationNeedsCode ==
    /\ Running("validation") => state.generated_code # NoCode
    /\ (call.op \in {"code_generation", "validation", "refinement"}
          /\ state.generated_code = NoCode)
         => ~(Running("validation") \/ Running("refinement"))

\* C12: CodeGeneration reached with branding_data absent (feature plan and API
\* config present) substitutes default branding and goes on to generate: it does
\* not return the missing-input error
C12_DefaultBrandingSubstituted ==
    (/\ call.op = "code_generation"
     /\ call.pre.branding_data = "None"
     /\ call.pre.feature_plan # NoPlan
     /\ call.pre.braze_api_config # "None"
     /\ ~call.raised)
      => /\ call.llm
         /\ Has(call.out, "error") =>
              call.out.error # "Missing feature plan, branding, or API config"

\* C13: when the research agent call raises, Research returns an error update
\* with next_step code_generation and no research_results, the next stage is
\* CodeGeneration, and the run goes on to Finalization (unless an exception
\* escapes a later stage)
C13_ResearchFailureNotFatal ==
    /\ []((call.op = "research" /\ call.llm /\ Has(call.out, "error")) =>
            /\ call.out.next_step = "code_generation"
            /\ ~Has(call.out, "research_results")
            /\ state.research_results = "None"
            /\ pc = "code_generation")
    /\ ((call.op = "research" /\ call.llm /\ Has(call.out, "error"))
          ~> (call.op = "finalization" \/ pc = "raised"))

\* C14: a Finalization that runs after the loop ended at the iteration limit
\* with validation_passed false, and exports, says in its summary that
\* validation issues remain; it never says that all validation checks passed
C14_SummaryReportsFailedValidation ==
    (/\ call.op = "finalization"
     /\ ~call.pre.validation_passed
     /\ call.pre.refinement_iteration >= call.pre.max_refinement_iterations
     /\ Has(call.out, "export_file_path"))
      => /\ call.out.messages # <<"success: All validation checks passed">>
         /\ call.out.messages =
              <<"success: Some validation issues detected (exported anyway)">>

\* C15: the judgment is PASS exactly when the judge's answer contains PASS and
\* does not contain FAIL (compared in upper case); an answer with both or with
\* neither, and a judge call that raises, give FAIL, whatever the browser
\* report says
C15_JudgmentRule ==
    (call.op = "validation" /\ Has(call.out, "validation_passed")) =>
        LET judge == call.input.judge
            hasPass == \E i \in 1..Len(judge.content) :
                          judge.content[i] \in {"PASS", "passed"}
            hasFail == \E i \in 1..Len(judge.content) : judge.content[i] = "FAIL"
        IN  /\ call.out.validation_passed <=> (~judge.raises /\ hasPass /\ ~hasFail)
            /\ (hasPass /\ hasFail) => ~call.out.validation_passed
            /\ (~hasPass /\ ~hasFail) => ~call.out.validation_passed
            /\ judge.raises => ~call.out.validation_passed

C15_Witness ==
    /\ call.op = "validation"
    /\ Has(call.out, "validation_passed")
    /\ ~call.out.validation_passed
    /\ call.out.validation_report.passed
    /\ call.input.judge.content = <<"PASS", "FAIL">>

\* C16: whenever Validation executes, the next_step of its update equals the
\* router's decision on the state the update was merged into
C16_NextStepAgreesWithRouter ==
    (call.op = "validation" /\ ~call.raised) =>
        call.out.next_step = route_after_validation(Merge(call.pre, call.out))

\* C17: the HTML cleaner is idempotent: cleaning a cleaned text returns it
\* unchanged
C17_CleanIdempotent ==
    (text.kind = "html" /\ text.op = "cleaned_twice") => text.again = text.out

C17_Witness ==
    /\ text.kind = "html"
    /\ text.op = "cleaned_twice"
    /\ text.arg = <<"fence", "html", "\n", "<html", "fence">>
    /\ text.out = <<"<!DOCTYPE html>", "\n", "<html">>
    /\ text.again = text.out

\* the text is one fenced block tagged html, and what the block encloses
IsHtmlFenced(t) ==
    /\ Len(t) >= 3
    /\ SubSeq(t, 1, 2) = <<"fence", "html">>
    /\ t[Len(t)] = "fence"
    /\ \A i \in 3..(Len(t) - 1) : t[i] # "fence"
Interior(t) == SubSeq(t, 3, Len(t) - 1)
Trimmed(t) ==
    IF \A i \in 1..Len(t) : t[i] = "\n" THEN <<>>
    ELSE LET first == CHOOSE i \in 1..Len(t) :
                         t[i] # "\n" /\ \A j \in 1..(i - 1) : t[j] = "\n"
             last == CHOOSE i \in 1..Len(t) :
                        t[i] # "\n" /\ \A j \in (i + 1)..Len(t) : t[j] = "\n"
         IN  SubSeq(t, first, last)

\* C18: for a text wrapped in a fenced block tagged html the cleaner returns
\* the trimmed interior of the block, with a doctype line in front of it
\* whenever the interior does not begin with one, so the result always begins
\* with <!DOCTYPE
C18_FencedHtmlGetsDoctype ==
    (text.kind = "html" /\ text.op # "none" /\ IsHtmlFenced(text.arg)) =>
        LET interior == Trimmed(Interior(text.arg))
        IN  /\ text.out = IF interior # <<>> /\ interior[1] = "<!DOCTYPE html>"
                          THEN interior
                          ELSE <<"<!DOCTYPE html>", "\n">> \o interior
            /\ text.out # <<>>
            /\ text.out[1] = "<!DOCTYPE html>"

\* the first dot-separated label of a host name, after its www. prefix
FirstLabel(host) ==
    LET bare == IF Len(host) >= 4 /\ SubSeq(host, 1, 4) = <<"w", "w", "w", ".">>
                THEN SubSeq(host, 5, Len(host)) ELSE host
        dots == { i \in 1..Len(bare) : bare[i] = "." }
    IN  IF dots = {} THEN bare
        ELSE SubSeq(bare, 1, (CHOOSE i \in dots : \A j \in dots : i <= j) - 1)

\* C19: the default plan is a function of the URL: it has exactly 2 features,
\* and its title ends with the first label of the URL's host without its www.
\* prefix, capitalized, or with Customer when there is no URL; two calls with
\* the same URL return equal plans
C19_DefaultPlanOfUrl ==
    (text.kind = "url" /\ text.op = "create_default_plan") =>
        /\ Len(text.out.features) = 2
        /\ text.out.page_title =
             <<"Braze SDK Demo - ">> \o
               (IF text.arg.present THEN capitalize(FirstLabel(text.arg.netloc))
                ELSE <<"Customer">>)
        /\ text.again = text.out

\* C20: Planning never returns an error update; with no URL in the message
\* and a failing planning LLM it returns the default plan (two features, a
\* title with Customer) and next_step research
C20_PlanningFallsBack ==
    (call.op = "planning" /\ ~call.raised) =>
        /\ ~Has(call.out, "error")
        /\ call.out.next_step = "research"
        /\ (/\ call.pre.customer_website_url = "None"
            /\ call.input.url = "None"
            /\ call.input.llm = "error")
             => /\ Len(call.out.feature_plan.features) = 2
                /\ \E i \in 1..Len(call.out.feature_plan.page_title) :
                      call.out.feature_plan.page_title[i] = "Customer"

C20_Witness ==
    /\ call.op = "planning"
    /\ ~call.raised
    /\ call.pre.customer_website_url = "None"
    /\ call.input.url = "None"
    /\ call.input.llm = "error"
    /\ call.out.feature_plan.source = "default"
    /\ call.out.branding_data = "None"

\* C21: configuring with an API key shorter than 32 characters or with an
\* empty endpoint is rejected and leaves the stored configuration as it was;
\* only an accepted pair changes the stored configuration
C21_ConfigureValidates ==
    /\ [](call.op = "validate_api_config" =>
            LET bad == call.input.api_key < 32 \/ call.input.sdk_endpoint = ""
            IN  /\ bad => (call.out # "validated" /\ braze_api_config = call.pre)
                /\ ~bad => (call.out = "validated" /\ braze_api_config = "config"))
    /\ [][braze_api_config' # braze_api_config =>
            /\ call'.op = "validate_api_config"
            /\ call'.input.api_key >= 32
            /\ call'.input.sdk_endpoint # ""]_vars

C21_Witness ==
    /\ call.op = "validate_api_config"
    /\ call.input.api_key = 31
    /\ call.input.sdk_endpoint # ""
    /\ call.pre = "config"
    /\ call.out # "validated"
    /\ braze_api_config = "config"

\* C22: a generation requested while no configuration is stored executes no
\* stage: the blocking generate raises, and the stream yields exactly one
\* event, of type error, and ends
C22_GenerateNeedsConfiguration ==
    (mode \in {"streaming", "blocking"} /\ braze_api_config = "None") =>
        /\ pc = "idle"
        /\ phase = "ready"
        /\ validations = 0
        /\ call.op \notin Nodes
        /\ mode = "blocking" => result = "raised"
        /\ mode = "streaming" =>
             /\ Len(events) = 1
             /\ events[1].type = "error"
             /\ yielded = {"error"}
             /\ stream = "closed"

C22_Witness ==
    /\ mode = "streaming"
    /\ braze_api_config = "None"
    /\ call.op = "validate_api_config"
    /\ call.out # "validated"
    /\ stream = "closed"
    /\ yielded = {"error"}

\* C23: is_complete and export_file_path are set by Finalization only: before
\* Finalization has executed is_complete is false and export_file_path unset,
\* no other stage's update holds either key, and no stage runs after
\* Finalization
C23_TerminalMarkers ==
    /\ call.op # "finalization" =>
         (~state.is_complete /\ state.export_file_path = "None")
    /\ (call.op \in Nodes \ {"finalization"}) =>
         (~Has(call.out, "is_complete") /\ ~Has(call.out, "export_file_path"))
    /\ call.op = "finalization" => (pc = "END" /\ phase = "ready")

C23_Witness ==
    /\ call.op = "finalization"
    /\ state.is_complete
    /\ state.export_file_path = "path"
    /\ pc = "END"
    /\ result = "returned"

\* C24: when the exporter raises, Finalization returns an update with error,
\* is_complete true and next_step end, without export_file_path and without a
\* success message, and the stream of that run yields no complete event
C24_ExportFailure ==
    (/\ call.op = "finalization"
     /\ Has(call.out, "error")
     /\ call.out.error = "Export failed")
      => /\ call.out.is_complete
         /\ call.out.next_step = "end"
         /\ ~Has(call.out, "export_file_path")
         /\ ~Has(call.out, "messages")
         /\ state.export_file_path = "None"
         /\ "complete" \notin yielded
         /\ \A i \in 1..Len(events) : events[i].type # "complete"

C24_Witness ==
    /\ call.op = "finalization"
    /\ Has(call.out, "error")
    /\ call.out.error = "Export failed"
    /\ mode = "streaming"
    /\ stream = "closed"
    /\ LastEvent.type = "error"

\* C25: no stage's process raises to the engine: whatever the state and
\* whichever delegated call fails, each stage returns an update
C25_StagesNeverRaise ==
    /\ call.op \in Nodes => ~call.raised
    /\ pc # "raised"

\* C26: an exception raised during graph execution does not reach the caller
\* of the engine: in the streaming and in the blocking mode the engine catches
\* it, and a stream ends with an error event as its last event
C26_EngineCatchesExceptions ==
    pc = "raised" =>
        /\ result # "raised"
        /\ mode = "streaming" =>
             (stream = "closed" /\ events # <<>> /\ LastEvent.type = "error")

\* C27: an error set by one stage is kept by every later stage that returns an
\* update without the key error, and changes only when a stage returns an
\* update with that key or a new run starts; so it is in the state at the end
C27_ErrorSurvivesSuccess ==
    [][ /\ (/\ Returns(pc)
            /\ state.error # "None"
            /\ ~Has(call'.out, "error")) => state'.error = state.error
        /\ (Returns(pc) /\ state.error # "None") => state'.error # "None"
        /\ state'.error # state.error =>
              \/ Returns(pc) /\ Has(call'.out, "error")
              \/ mode = "idle" /\ mode' # "idle" ]_vars

C27_Witness ==
    /\ pc = "END"
    /\ call.op = "finalization"
    /\ ~Has(call.out, "error")
    /\ state.is_complete
    /\ state.export_file_path # "None"
    /\ state.error = "Research failed"

\* C28: at most one MCP session is open at any time, and only in the thread
\* holding the connection lock; every attempt of a call, the first and each
\* retry, starts without the lock and opens its session only after taking it
C28_McpSerialized ==
    /\ [](/\ Cardinality(sessions) <= 1
          /\ \A t \in sessions : connection_lock = t
          /\ \A t \in Threads : thread[t].pc = "attempt" => connection_lock # t)
    /\ [][\A t \in Threads :
            /\ thread'[t].attempt > thread[t].attempt =>
                  (connection_lock' # t /\ thread'[t].pc = "attempt")
            /\ (t \in sessions' /\ t \notin sessions) =>
                  (connection_lock = t /\ thread[t].pc = "locked")]_vars

C28_Witness ==
    \E t, u \in Threads :
        /\ t # u
        /\ t \in sessions
        /\ thread[t].attempt > 0
        /\ thread[u].pc = "attempt"
        /\ thread[u].attempt > 0

\* C29: in the streaming mode, when a stage begins executing the node_start
\* event naming it has been yielded (it is the last event of the stream), and
\* the step in which the stage returns yields the node_complete event naming it
C29_StartBeforeCompleteAfter ==
    [][ mode = "streaming" =>
          /\ (pc \in Nodes /\ phase = "ready" /\ phase' = "running") =>
                (events # <<>> /\ LastEvent = Event("node_start", pc))
          /\ Returns(pc) =>
                \E i \in 1..Len(events') : events'[i] = Event("node_complete", pc) ]_vars

\* C30 (as stated): whenever a validation report is in the state, it is the
\* report of the generated code that is in the state
C30_ReportOnCurrentCode ==
    state.validation_report.present =>
        state.validation_report.code = state.generated_code

\* C30: the report the Router, Refinement and Finalization read is the report
\* of the generated code in the state; the state holds the report of other
\* code only between a Refinement that produced new code and the Validation
\* that follows it, and at the end, where the code is the validated code or
\* its polished form
C30_ReportReadOnItsCode ==
    state.validation_report.present =>
        /\ pc \in {"refinement", "finalization"} =>
              state.validation_report.code = state.generated_code
        /\ pc = "validation" =>
              \/ state.validation_report.code = state.generated_code
              \/ /\ call.op = "refinement"
                 /\ Has(call.out, "generated_code")
                 /\ state.generated_code = call.out.generated_code
        /\ pc = "END" =>
              state.generated_code \in { state.validation_report.code,
                                         polish_code(state.validation_report.code, "ok") }
        /\ pc \in Nodes \cup {"END"}

C30_Witness ==
    /\ pc = "END"
    /\ state.validation_report.present
    /\ state.refinement_iteration > 0
    /\ state.generated_code.polished
    /\ state.generated_code = polish_code(state.validation_report.code, "ok")
    /\ state.export_file_path # "None"

\* C31: Validation of present code returns a report and no error; when browser
\* testing is enabled and the browser tester raises, the report has passed =
\* false and exactly one issue, of severity error, and the next step is one the
\* Router knows; when browser testing is disabled the report has passed = true
\* and no issues
C31_BrowserFailureIsValidationFailure ==
    (call.op = "validation" /\ call.pre.generated_code # NoCode) =>
        /\ ~call.raised
        /\ ~Has(call.out, "error")
        /\ Has(call.out, "validation_report")
        /\ call.out.next_step \in {"refine", "finalize"}
        /\ (enable_browser_testing /\ call.input.browser = "raised") =>
              /\ ~call.out.validation_report.passed
              /\ call.out.validation_report.issues = <<"error">>
        /\ ~enable_browser_testing =>
              /\ call.out.validation_report.passed
              /\ call.out.validation_report.issues = <<>>

C31_Witness ==
    /\ call.op = "validation"
    /\ enable_browser_testing
    /\ call.input.browser = "raised"
    /\ Has(call.out, "validation_report")
    /\ call.out.validation_report.issues = <<"error">>
    /\ ~call.out.validation_report.passed
    /\ call.out.next_step = "refine"

\* C32: when the polishing LLM call raises and the exporter succeeds,
\* Finalization returns the generated code it was given, unchanged, with
\* is_complete, the export path and no error
C32_PolishFailureDoesNotBlock ==
    (/\ call.op = "finalization"
     /\ call.pre.generated_code # NoCode
     /\ call.pre.feature_plan # NoPlan
     /\ call.pre.branding_data # "None"
     /\ call.input.polish = "error"
     /\ call.input.export = "ok") =>
        /\ ~call.raised
        /\ ~Has(call.out, "error")
        /\ call.out.is_complete
        /\ call.out.export_file_path = "path"
        /\ call.out.generated_code = call.pre.generated_code

C32_Witness ==
    /\ call.op = "finalization"
    /\ call.input.polish = "error"
    /\ call.input.export = "ok"
    /\ Has(call.out, "export_file_path")
    /\ call.out.is_complete
    /\ call.out.generated_code = SomeCode

\* C33: Refinement called on a state without generated code or without a
\* validation report returns an error update with next_step error_handler,
\* does not call the LLM, and returns no generated code
C33_RefinementNeedsCodeAndReport ==
    (/\ call.op = "refinement"
     /\ (call.pre.generated_code = NoCode \/ ~call.pre.validation_report.present)) =>
        /\ ~call.raised
        /\ Has(call.out, "error")
        /\ call.out.error # "None"
        /\ call.out.next_step = "error_handler"
        /\ ~call.llm
        /\ ~Has(call.out, "generated_code")

C33_Witness ==
    /\ call.op = "refinement"
    /\ call.pre.generated_code # NoCode
    /\ ~call.pre.validation_report.present
    /\ call.out.next_step = "error_handler"
    /\ ~call.llm

\* C34: the URL Planning resolves is the supplied URL when there is one;
\* otherwise the first http(s) URL of the message; otherwise https:// followed
\* by the first bare domain of the message that is not a placeholder;
\* otherwise none
C34_UrlResolution ==
    (text.kind = "message" /\ text.op = "resolve_url") =>
        LET m == text.arg.message
            urlAt == { i \in 1..Len(m) : m[i] \in UrlWords }
            domAt == { i \in 1..Len(m) : m[i] \in DomainWords \ PlaceholderDomains }
            first(S) == CHOOSE i \in S : \A j \in S : i <= j
        IN  IF text.arg.supplied # "None" THEN text.out = text.arg.supplied
            ELSE IF urlAt # {} THEN text.out = m[first(urlAt)]
            ELSE IF domAt # {} THEN text.out = <<"https://", m[first(domAt)]>>
            ELSE text.out = "None"

C34_Witness ==
    /\ text.kind = "message"
    /\ text.op = "resolve_url"
    /\ text.arg.supplied = "None"
    /\ text.arg.message = <<"example.com", "hello", "shop.io">>
    /\ text.out = <<"https://", "shop.io">>

\* C35: a documentation tool never passes an exception to its caller: a call
\* whose MCP call failed, after a single attempt or after all retries, ends
\* with an error string as its result, and a call that succeeded with content
C35_ToolsReturnErrorStrings ==
    /\ [](\A t \in Threads : thread[t].result \in {"none", "content", "error string"})
    /\ [][\A t \in Threads :
            /\ (thread[t].pc = "raised" /\ thread'[t] # thread[t]) =>
                  (thread'[t].pc = "idle" /\ thread'[t].result = "error string")
            /\ (thread[t].pc = "returned" /\ thread'[t] # thread[t]) =>
                  (thread'[t].pc = "idle" /\ thread'[t].result = "content")]_vars

C35_Witness ==
    \E t \in Threads :
        /\ thread[t].pc = "idle"
        /\ thread[t].result = "error string"
        /\ thread[t].attempt = MAX_RETRIES - 1

\* C37: a call makes at most MAX_RETRIES attempts; after a failed attempt
\* _run_with_lock is called again only if the exception names a race and
\* attempts are left; any other exception, and a race on the last attempt,
\* goes from the attempt to the caller; a successful attempt returns
C37_RetryRule ==
    /\ [](\A t \in Threads : thread[t].attempt <= MAX_RETRIES - 1)
    /\ [][\A t \in Threads :
            /\ (thread[t].pc = "leaving" /\ thread'[t] # thread[t]) =>
                  IF thread[t].exc = "none" THEN thread'[t].pc = "returned"
                  ELSE thread'[t].pc = "caught" /\ thread'[t].exc = thread[t].exc
            /\ (thread[t].pc = "caught" /\ thread'[t] # thread[t]) =>
                  IF thread[t].exc \in RaceMessages /\ thread[t].attempt < MAX_RETRIES - 1
                  THEN thread'[t].pc = "attempt" /\ thread'[t].attempt = thread[t].attempt + 1
                  ELSE thread'[t].pc = "raised"
            /\ (thread[t].pc = "returned" /\ thread'[t] # thread[t]) =>
                  thread'[t].pc = "idle"]_vars

\* the positions of the error events in the window of the stream
ErrorEventAt == { i \in 1..Len(events) : events[i].type = "error" }

C38_CompleteCarriesBranding ==
    (mode = "streaming" /\ events # <<>> /\ LastEvent.type = "complete") =>
        /\ LastEvent.export_file_path = state.export_file_path
        /\ LastEvent.export_file_path # "None"
        /\ LastEvent.branding_data = state.branding_data
        /\ LastEvent.branding_data # "None"

\* C39: process_message answers with the success text only when the state
\* generate returned has an export path, and with an error text when the run
\* ended without an export or generate raised
C39_SuccessTextNeedsExport ==
    reply # "none" =>
        /\ reply \in {"Landing page generated successfully", "Error"}
        /\ reply = "Landing page generated successfully" =>
              (result = "returned" /\ state.export_file_path # "None")
        /\ (result = "raised" \/ state.export_file_path = "None") => reply = "Error"

====
